---- MODULE Spec2Model ----
(***************************************************************************)
(* EcoBuild impact-assessment engine (src/main.py, src/models.py,          *)
(* src/ml_train.py) as a state machine.                                    *)
(*                                                                         *)
(* Numbers.  Python floats are modelled as fixed-point integers with three *)
(* decimals (1.5 is 1500); the integer fields (floors, vehicles_per_day,   *)
(* the five flags, near_sensitive_zone) are plain integers.  Latitudes and *)
(* longitudes carry four decimals (20.5937 is 205937) and are only ever    *)
(* copied and handed to haversine.  The weighted overall score is carried  *)
(* with six decimals until it is rounded.   The inputs enumerated below    *)
(* lie on a grid on which every division of the handlers is exact, so the  *)
(* fixed-point results are the real-number results of the formulas.        *)
(*                                                                         *)
(* Strings.  A city name is a sequence of one-character strings so that    *)
(* str.lower() and str.strip() can be computed character by character.     *)
(***************************************************************************)
EXTENDS Integers, Sequences, FiniteSets, TLC

VARIABLES
    env,            \* the files on disk when the module is imported
    pc,             \* "import" before the module-level load, then "serving" / "responded"
    ML_MODEL,       \* main.py global
    SENSITIVE_LOCS, \* main.py global
    CITIES_DB,      \* main.py global
    request,        \* the request the last handler ran on
    response,       \* what that handler returned or raised
    classifier_call \* the feature matrix handed to ML_MODEL.predict, if any

vars == <<env, pc, ML_MODEL, SENSITIVE_LOCS, CITIES_DB, request, response, classifier_call>>

-----------------------------------------------------------------------------
(* Bounds of the model *)

\* longest sensitive-zone table considered
MaxZones == 2
\* most whitespace characters put on either side of a city name
MaxPad == 1

-----------------------------------------------------------------------------
(* Fixed point *)

\* one unit of a float field: 10^-3
U == 10 * 10 * 10

\* n as a fixed-point float
F(n) == n * U

Min(a, b) == IF a <= b THEN a ELSE b
Max(a, b) == IF a >= b THEN a ELSE b

\* a / b for fixed-point a and b, long division so that no product overflows
FDiv(a, b) == (a \div b) * U + ((a % b) * U) \div b

\* Python's round(x, ndigits) for a value x carried with `decimals` decimals,
\* ndigits <= decimals: nearest multiple of 10^-ndigits, ties to the even
\* multiple; the result is again carried with `decimals` decimals.
RECURSIVE Pow10(_)
Pow10(k) == IF k = 0 THEN 1 ELSE 10 * Pow10(k - 1)

round(x, ndigits, decimals) ==
    IF ndigits >= decimals THEN x ELSE
    LET q    == Pow10(decimals - ndigits)
        lo   == x \div q
        rem  == x % q
        up   == IF 2 * rem > q THEN TRUE
                ELSE IF 2 * rem < q THEN FALSE
                ELSE lo % 2 = 1
    IN  (IF up THEN lo + 1 ELSE lo) * q

-----------------------------------------------------------------------------
(* Strings: str.lower() and str.strip() *)

UpperChars == <<"D", "E", "G", "H", "I", "L", "N", "O", "A", "P", "U", "F", "W", "X">>
LowerChars == <<"d", "e", "g", "h", "i", "l", "n", "o", "a", "p", "u", "f", "w", "x">>
Whitespace == {" ", "\t"}

lower_char(c) ==
    IF \E i \in 1..Len(UpperChars) : UpperChars[i] = c
    THEN LowerChars[CHOOSE i \in 1..Len(UpperChars) : UpperChars[i] = c]
    ELSE c

upper_char(c) ==
    IF \E i \in 1..Len(LowerChars) : LowerChars[i] = c
    THEN UpperChars[CHOOSE i \in 1..Len(LowerChars) : LowerChars[i] = c]
    ELSE c

\* str.lower()
lower(s) == [i \in 1..Len(s) |-> lower_char(s[i])]

\* str.upper(), used only to enumerate spellings of a name
upper(s) == [i \in 1..Len(s) |-> upper_char(s[i])]

\* str.strip(): drop leading and trailing whitespace
strip(s) ==
    LET keep == {i \in 1..Len(s) : s[i] \notin Whitespace}
    IN  IF keep = {} THEN <<>>
        ELSE LET first == CHOOSE i \in keep : \A j \in keep : i <= j
                 last  == CHOOSE i \in keep : \A j \in keep : i >= j
             IN  SubSeq(s, first, last)

-----------------------------------------------------------------------------
(* Python values *)

None == [py |-> "None"]
DataFrame(rows) == [py |-> "DataFrame", rows |-> rows]
Classifier == [py |-> "RandomForestClassifier"]

-----------------------------------------------------------------------------
(* The files on disk: impact_model.pkl, data/sensitive_locations.csv and   *)
(* data/cities_aqi.csv.  Rows are given as read_csv returns them.          *)

PashanLake == [name |-> "Pashan Lake", category |-> "Wetland",
               lat |-> 185304, lng |-> 738567]
MulaMutha  == [name |-> "Mula-Mutha Bird Sanctuary", category |-> "Sanctuary",
               lat |-> 185604, lng |-> 738667]
Pench      == [name |-> "Pench Tiger Reserve", category |-> "Reserve",
               lat |-> 206137, lng |-> 789829]

\* 5.0000057 km from the Pune row: 5.0 km to the three decimals carried
BanerHill  == [name |-> "Baner Hill Biodiversity Park", category |-> "Forest",
               lat |-> 185430, lng |-> 738157]

ZonePool == {PashanLake, MulaMutha, Pench, BanerHill}

RECURSIVE SeqsUpTo(_, _)
\* the sequences without repetition of at most n elements of S
SeqsUpTo(S, n) ==
    IF n = 0 THEN {<<>>}
    ELSE LET shorter == SeqsUpTo(S, n - 1)
             longest == {t \in shorter : Len(t) = n - 1}
         IN  shorter \cup
             UNION {{Append(t, z) : z \in S \ {t[i] : i \in 1..Len(t)}} : t \in longest}

ZoneTables == SeqsUpTo(ZonePool, MaxZones)

Pune  == [city |-> <<"P", "u", "n", "e">>, latitude |-> 185204, longitude |-> 738567,
          pm25 |-> F(60), no2 |-> F(30), so2 |-> F(10), co_mg_m3 |-> F(1), o3 |-> F(25)]
\* a second row for the same city, spelled in capitals, with other readings
PuneStation == [city |-> <<"P", "U", "N", "E">>, latitude |-> 186298, longitude |-> 737997,
          pm25 |-> F(80), no2 |-> F(35), so2 |-> F(12), co_mg_m3 |-> 1200, o3 |-> F(28)]
Delhi == [city |-> <<"D", "e", "l", "h", "i">>, latitude |-> 286139, longitude |-> 772090,
          pm25 |-> F(150), no2 |-> F(60), so2 |-> F(20), co_mg_m3 |-> F(2), o3 |-> F(40)]

CityTables == { <<>>, <<Pune, Delhi>>, <<PuneStation, Pune>> }

\* a CSV file: absent or unreadable, readable without the expected column,
\* or readable with rows
NoFile == [state |-> "missing"]
BadFile == [state |-> "no city column"]
CsvFile(rows) == [state |-> "ok", rows |-> rows]

Environments ==
    [model_file  : {"ok", "missing"},
     locs_file   : {NoFile} \cup {CsvFile(t) : t \in ZoneTables},
     cities_file : {NoFile, BadFile} \cup {CsvFile(t) : t \in CityTables}]

-----------------------------------------------------------------------------
(* main.py *)

\* haversine(lon1, lat1, lon2, lat2) in km (fixed point), tabulated from the
\* formula of main.py for the coordinates that occur in the files above:
\* <<lon1, lat1, lon2, lat2, distance>>
HaversineTable == {
    <<738567, 185204, 738567, 185304, 1112>>,
    <<738567, 185204, 738667, 185604, 4571>>,
    <<738567, 185204, 789829, 206137, 585302>>,
    <<737997, 186298, 738567, 185304, 12580>>,
    <<737997, 186298, 738667, 185604, 10460>>,
    <<737997, 186298, 789829, 206137, 585932>>,
    <<772090, 286139, 738567, 185304, 1171928>>,
    <<772090, 286139, 738667, 185604, 1168430>>,
    <<772090, 286139, 789829, 206137, 907429>>,
    <<789629, 205937, 738567, 185304, 582074>>,
    <<789629, 205937, 738667, 185604, 579758>>,
    <<789629, 205937, 789829, 206137, 3046>>,
    <<738567, 185204, 738157, 185430, 5000>>,
    <<737997, 186298, 738157, 185430, 9798>>,
    <<772090, 286139, 738157, 185430, 1171804>>,
    <<789629, 205937, 738157, 185430, 585458>> }

haversine(lon1, lat1, lon2, lat2) ==
    (CHOOSE r \in HaversineTable :
        r[1] = lon1 /\ r[2] = lat1 /\ r[3] = lon2 /\ r[4] = lat2)[5]

\* LoadedResources with a bug: each resource loaded under its own guard, so a
\* failure leaves only that resource unbound
LoadedResources_independent(e) ==
    [ML_MODEL |-> IF e.model_file = "ok" THEN Classifier ELSE None,
     SENSITIVE_LOCS |-> IF e.locs_file.state = "ok" THEN DataFrame(e.locs_file.rows)
                        ELSE None,
     CITIES_DB |-> IF e.cities_file.state = "ok"
                   THEN DataFrame([i \in 1..Len(e.cities_file.rows) |->
                            [row |-> e.cities_file.rows[i],
                             city_lower |-> lower(e.cities_file.rows[i].city)]])
                   ELSE None]

\* the module-level try block: the three loads and the city_lower column
LoadedResources(e) ==
    IF e.model_file = "ok" /\ e.locs_file.state = "ok" /\ e.cities_file.state = "ok"
    THEN [ML_MODEL |-> Classifier,
          SENSITIVE_LOCS |-> DataFrame(e.locs_file.rows),
          CITIES_DB |-> DataFrame(
              [i \in 1..Len(e.cities_file.rows) |->
                  [row |-> e.cities_file.rows[i],
                   city_lower |-> lower(e.cities_file.rows[i].city)]])]
    ELSE [ML_MODEL |-> None, SENSITIVE_LOCS |-> None, CITIES_DB |-> None]

\* LoadResources with a bug: the classifier is bound on its own, only the two
\* tables stand or fall with the whole block
LoadResources_partial ==
    /\ pc = "import"
    /\ ML_MODEL' = (IF env.model_file = "ok" THEN Classifier ELSE None)
    /\ SENSITIVE_LOCS' =
           (IF env.model_file = "ok" /\ env.locs_file.state = "ok"
               /\ env.cities_file.state = "ok"
            THEN DataFrame(env.locs_file.rows) ELSE None)
    /\ CITIES_DB' =
           (IF env.model_file = "ok" /\ env.locs_file.state = "ok"
               /\ env.cities_file.state = "ok"
            THEN DataFrame([i \in 1..Len(env.cities_file.rows) |->
                               [row |-> env.cities_file.rows[i],
                                city_lower |-> lower(env.cities_file.rows[i].city)]])
            ELSE None)
    /\ pc' = "serving"
    /\ UNCHANGED <<env, request, response, classifier_call>>

LoadResources ==
    /\ pc = "import"
    /\ ML_MODEL' = LoadedResources(env).ML_MODEL
    /\ SENSITIVE_LOCS' = LoadedResources(env).SENSITIVE_LOCS
    /\ CITIES_DB' = LoadedResources(env).CITIES_DB
    /\ pc' = "serving"
    /\ UNCHANGED <<env, request, response, classifier_call>>

\* defaults with a bug: the SO2 and CO fallbacks exchanged
defaults_swapped == [pm25 |-> F(100), no2 |-> F(40), so2 |-> 1500, co |-> F(15), o3 |-> F(30),
                     lat |-> 205937, lng |-> 789629, noise |-> F(55)]

\* enrich_data.  main.py reads the globals CITIES_DB and SENSITIVE_LOCS; here
\* they are the parameters cities_db and sensitive_locs.
defaults == [pm25 |-> F(100), no2 |-> F(40), so2 |-> F(15), co |-> 1500, o3 |-> F(30),
             lat |-> 205937, lng |-> 789629, noise |-> F(55)]

city_key_of(city) == strip(lower(city))

\* CITIES_DB[CITIES_DB['city_lower'] == key]: the indices of the matching rows
match_rows(cities_db, key) ==
    {i \in 1..Len(cities_db.rows) : cities_db.rows[i].city_lower = key}

\* match.iloc[0]
iloc0(cities_db, match) ==
    cities_db.rows[CHOOSE i \in match : \A j \in match : i <= j].row

city_data_of(city, cities_db) ==
    IF cities_db # None /\ match_rows(cities_db, city_key_of(city)) # {}
    THEN iloc0(cities_db, match_rows(cities_db, city_key_of(city)))
    ELSE None

resolved_lat(city_data) == IF city_data # None THEN city_data.latitude ELSE defaults.lat
resolved_lng(city_data) == IF city_data # None THEN city_data.longitude ELSE defaults.lng

RECURSIVE scan_near_inclusive(_, _, _, _)
\* scan_near with a bug: a zone at exactly 5.0 km counted as near
scan_near_inclusive(lat, lng, rows, i) ==
    IF i > Len(rows) THEN 0
    ELSE IF haversine(lng, lat, rows[i].lng, rows[i].lat) <= F(5) THEN 1
    ELSE scan_near_inclusive(lat, lng, rows, i + 1)

\* near_sensitive_of with that bug
near_sensitive_inclusive(lat, lng, sensitive_locs) ==
    IF sensitive_locs # None THEN scan_near_inclusive(lat, lng, sensitive_locs.rows, 1)
    ELSE 0

RECURSIVE scan_near(_, _, _, _)
\* the loop over SENSITIVE_LOCS.iterrows() from row i on: 1 and break at the
\* first row nearer than 5 km, 0 when the rows run out
scan_near(lat, lng, rows, i) ==
    IF i > Len(rows) THEN 0
    ELSE IF haversine(lng, lat, rows[i].lng, rows[i].lat) < F(5) THEN 1
    ELSE scan_near(lat, lng, rows, i + 1)

\* near_sensitive = 0, then the loop if the table is loaded
near_sensitive_of(lat, lng, sensitive_locs) ==
    IF sensitive_locs # None THEN scan_near(lat, lng, sensitive_locs.rows, 1)
    ELSE 0

base_noise_of(project_type) ==
    IF project_type = "Industrial" THEN F(75)
    ELSE IF project_type = "Commercial" THEN F(65)
    ELSE F(50)

\* int(x) of a fixed-point float: truncation toward zero, a plain integer
int(x) == IF x >= 0 THEN x \div U ELSE -((-x) \div U)

enrich_data(user_input, cities_db, sensitive_locs) ==
    LET city_data == city_data_of(user_input.city, cities_db)
        lat == resolved_lat(city_data)
        lng == resolved_lng(city_data)
    IN  [land_area_m2 |-> user_input.land_area_m2,
         built_up_area_m2 |-> user_input.built_up_area_m2,
         floors |-> user_input.floors,
         daily_water_m3 |-> user_input.daily_water_m3,
         daily_waste_kg |-> user_input.daily_waste_kg,
         hazardous_waste_kg_per_month |-> user_input.hazardous_waste_kg_per_month,
         vehicles_per_day |-> user_input.vehicles_per_day,
         fuel_consumption_l_per_day |-> user_input.fuel_consumption_l_per_day,
         distance_to_residential_m |-> user_input.distance_to_residential_m,
         vegetation_removed_percent |-> user_input.vegetation_removed_percent,
         avg_noise_db |-> base_noise_of(user_input.project_type),
         near_sensitive_zone |-> near_sensitive_of(lat, lng, sensitive_locs),
         baseline_pm25 |-> IF city_data # None THEN city_data.pm25 ELSE defaults.pm25,
         baseline_no2 |-> IF city_data # None THEN city_data.no2 ELSE defaults.no2,
         baseline_so2 |-> IF city_data # None THEN city_data.so2 ELSE defaults.so2,
         baseline_co |-> IF city_data # None THEN city_data.co_mg_m3 ELSE defaults.co,
         baseline_o3 |-> IF city_data # None THEN city_data.o3 ELSE defaults.o3,
         dg_hours_per_day |-> user_input.dg_hours_per_day,
         distance_to_water_body_km |-> user_input.distance_to_water_body_km,
         stp_present |-> user_input.stp_present,
         has_rainwater_harvesting |-> user_input.has_rainwater_harvesting,
         waste_segregation |-> user_input.waste_segregation,
         green_area_percent |-> int(user_input.green_area_percent),
         has_solar |-> user_input.has_solar,
         energy_efficient_lighting |-> user_input.energy_efficient_lighting,
         rooms |-> 1]

\* the physics block shared by calculate_impact and predict_impact_ml
added_pm25_of(data) ==
    (data.vehicles_per_day * (U \div 2) + data.fuel_consumption_l_per_day * 2) \div 1000
added_no2_of(data) ==
    (data.vehicles_per_day * (U \div 5) + data.fuel_consumption_l_per_day * 20) \div 1000
final_pm25_of(data) == data.baseline_pm25 + added_pm25_of(data) * 50
final_no2_of(data) == data.baseline_no2 + added_no2_of(data) * 50

\* air_score_of with a bug: the cap at 100 forgotten
air_score_uncapped(data) ==
    (final_pm25_of(data) * 50) \div 250 + (final_no2_of(data) * 30) \div 100
    + data.dg_hours_per_day * 2

\* the five sub-scores of calculate_impact, before the rounding of the response
air_score_of(data) ==
    Min(F(100), (final_pm25_of(data) * 50) \div 250 + (final_no2_of(data) * 30) \div 100
                + data.dg_hours_per_day * 2)

persons_of(data) == Max(F(1), data.built_up_area_m2 \div 15)
lpcd_of(data) == FDiv(data.daily_water_m3 * 1000, persons_of(data))

\* water_score_of with a bug: a water body at exactly 0.5 km counted as near
water_score_inclusive(data) ==
    LET s1 == IF lpcd_of(data) > F(150) THEN F(40) ELSE 0
        s2 == IF data.distance_to_water_body_km <= U \div 2 THEN s1 + F(40) ELSE s1
        s3 == IF data.stp_present = 0 THEN s2 + F(20) ELSE s2
        s4 == IF data.has_rainwater_harvesting = 1 THEN s3 - F(10) ELSE s3
    IN  Max(0, Min(F(100), s4))

water_score_of(data) ==
    LET s1 == IF lpcd_of(data) > F(150) THEN F(40) ELSE 0
        s2 == IF data.distance_to_water_body_km < U \div 2 THEN s1 + F(40) ELSE s1
        s3 == IF data.stp_present = 0 THEN s2 + F(20) ELSE s2
        s4 == IF data.has_rainwater_harvesting = 1 THEN s3 - F(10) ELSE s3
    IN  Max(0, Min(F(100), s4))

waste_score_of(data) ==
    LET s1 == (data.daily_waste_kg * 10) \div 100 + data.hazardous_waste_kg_per_month * 2
        s2 == IF data.waste_segregation = 0 THEN s1 + F(20) ELSE s1
    IN  Min(F(100), s2)

land_score_of(data) ==
    LET s1 == data.vegetation_removed_percent
        s2 == IF data.near_sensitive_zone = 1 THEN s1 + F(40) ELSE s1
        s3 == IF data.green_area_percent < 10 THEN s2 + F(20) ELSE s2
    IN  Min(F(100), s3)

noise_score_of(data) ==
    LET s1 == data.avg_noise_db - F(45)
        s2 == Max(0, s1 * 2)
        s3 == IF data.distance_to_residential_m < F(50) THEN s2 + F(20) ELSE s2
    IN  Min(F(100), s3)

\* the weighted sum, a product of two fixed-point numbers: six decimals
overall_score_of(data) ==
    air_score_of(data) * 300 + water_score_of(data) * 250 + land_score_of(data) * 200
    + waste_score_of(data) * 150 + noise_score_of(data) * 100

AirRec == "High Air Pollution risk: Install Air Purifiers and Smog Towers."
WaterRec == "Critical Water usage: Mandate STP and Rainwater Harvesting."
LandRec == "High ecological impact: Increase Green Belt area > 30%."
SolarRec == "Energy: Install Solar Panels to reduce carbon footprint."
LedRec == "Energy: Switch to LED lighting."

\* recs_of with a bug: the solar rule evaluated before the land rule
recs_solar_first(data) ==
    LET r1 == IF air_score_of(data) > F(50) THEN <<AirRec>> ELSE <<>>
        r2 == IF water_score_of(data) > F(50) THEN Append(r1, WaterRec) ELSE r1
        r3 == IF data.has_solar = 0 THEN Append(r2, SolarRec) ELSE r2
        r4 == IF land_score_of(data) > F(50) THEN Append(r3, LandRec) ELSE r3
        r5 == IF data.energy_efficient_lighting = 0 THEN Append(r4, LedRec) ELSE r4
    IN  r5

recs_of(data) ==
    LET r1 == IF air_score_of(data) > F(50) THEN <<AirRec>> ELSE <<>>
        r2 == IF water_score_of(data) > F(50) THEN Append(r1, WaterRec) ELSE r1
        r3 == IF land_score_of(data) > F(50) THEN Append(r2, LandRec) ELSE r2
        r4 == IF data.has_solar = 0 THEN Append(r3, SolarRec) ELSE r3
        r5 == IF data.energy_efficient_lighting = 0 THEN Append(r4, LedRec) ELSE r4
    IN  r5

\* imp_class_of with a bug: the thresholds taken as inclusive
imp_class_inclusive(overall_score) ==
    IF overall_score >= 60 * U * U THEN "High"
    ELSE IF overall_score >= 30 * U * U THEN "Moderate"
    ELSE "Low"

imp_class_of(overall_score) ==
    IF overall_score > 60 * U * U THEN "High"
    ELSE IF overall_score > 30 * U * U THEN "Moderate"
    ELSE "Low"

\* the body calculate_impact returns; floats with three decimals
calculate_impact(user_data, cities_db, sensitive_locs) ==
    LET data == enrich_data(user_data, cities_db, sensitive_locs)
    IN  [overall_score |-> round(overall_score_of(data), 1, 6) \div U,
         impact_class |-> imp_class_of(overall_score_of(data)),
         breakdown |-> ("Air Impact" :> round(air_score_of(data), 1, 3))
                       @@ ("Water Impact" :> round(water_score_of(data), 1, 3))
                       @@ ("Land Impact" :> round(land_score_of(data), 1, 3))
                       @@ ("Waste Impact" :> round(waste_score_of(data), 1, 3))
                       @@ ("Noise Impact" :> round(noise_score_of(data), 1, 3)),
         added_pollution |-> ("PM2.5" :> round(added_pm25_of(data), 4, 3))
                             @@ ("NO2" :> round(added_no2_of(data), 4, 3)),
         final_pollution |-> ("PM2.5" :> round(final_pm25_of(data), 2, 3))
                             @@ ("NO2" :> round(final_no2_of(data), 2, 3)),
         recommendations |-> recs_of(data)]

\* the feature list of train_model (ml_train.py), in training order
train_features ==
    <<"land_area_m2", "built_up_area_m2", "floors", "daily_water_m3",
      "daily_waste_kg", "hazardous_waste_kg_per_month", "avg_noise_db",
      "distance_to_residential_m", "vegetation_removed_percent",
      "near_sensitive_zone", "vehicles_per_day", "fuel_consumption_l_per_day",
      "final_pm25", "final_no2", "final_so2", "final_co">>

\* features_of with a bug: final_co placed before final_so2
features_co_first(data) ==
    << <<data.land_area_m2, data.built_up_area_m2, data.floors, data.daily_water_m3,
         data.daily_waste_kg, data.hazardous_waste_kg_per_month, data.avg_noise_db,
         data.distance_to_residential_m, data.vegetation_removed_percent,
         data.near_sensitive_zone, data.vehicles_per_day, data.fuel_consumption_l_per_day,
         final_pm25_of(data), final_no2_of(data), data.baseline_co, data.baseline_so2>> >>

\* predict_impact_ml: the feature matrix handed to ML_MODEL.predict
features_of(data) ==
    << <<data.land_area_m2, data.built_up_area_m2, data.floors, data.daily_water_m3,
         data.daily_waste_kg, data.hazardous_waste_kg_per_month, data.avg_noise_db,
         data.distance_to_residential_m, data.vegetation_removed_percent,
         data.near_sensitive_zone, data.vehicles_per_day, data.fuel_consumption_l_per_day,
         final_pm25_of(data), final_no2_of(data), data.baseline_so2, data.baseline_co>> >>

labels == (0 :> "Low") @@ (1 :> "Moderate") @@ (2 :> "High")

\* what the external classifier may answer: predict(...)[0] and max(predict_proba(...)[0])
ClassifierAnswers == [pred_class : {0, 1, 2}, confidence : {U \div 2, F(1)}]

\* the body predict_impact_ml returns for a classifier answer
ml_prediction(answer) ==
    [predicted_class |-> answer.pred_class,
     label |-> IF answer.pred_class \in DOMAIN labels THEN labels[answer.pred_class]
               ELSE "Unknown",
     confidence |-> round(answer.confidence * 100, 2, 3)]

\* float('inf')
inf == 2147483647

RECURSIVE scan_nearest(_, _, _, _, _)
\* the loop of analyze_location_proximity from row i on: <<min_dist, nearest>>
scan_nearest(lat, lng, rows, i, acc) ==
    IF i > Len(rows) THEN acc
    ELSE LET dist == haversine(lng, lat, rows[i].lng, rows[i].lat)
         IN  scan_nearest(lat, lng, rows, i + 1,
                          IF dist < acc[1] THEN <<dist, rows[i]>> ELSE acc)

UnknownLocation == [nearest_location |-> "Unknown", distance_km |-> 0, risk |-> "Unknown"]
CityNotFound == [nearest_location |-> "City Not Found", distance_km |-> 0, risk |-> "Unknown"]

\* the lookup of analyze_location_proximity: match.iloc[0], or None when the
\* table is missing or no row matches
location_city_data(city, cities_db) ==
    IF cities_db # None /\ match_rows(cities_db, lower(city)) # {}
    THEN iloc0(cities_db, match_rows(cities_db, lower(city)))
    ELSE None

\* analyze_location_proximity: the HTTP outcome for a city name
analyze_location_proximity(city, cities_db, sensitive_locs) ==
    IF cities_db = None THEN [status |-> 200, body |-> UnknownLocation]
    ELSE IF location_city_data(city, cities_db) = None
    THEN [status |-> 200, body |-> CityNotFound]
    ELSE LET city_data == location_city_data(city, cities_db)
             lat == city_data.latitude
             lng == city_data.longitude
         IN  IF sensitive_locs = None
             THEN [status |-> 200, body |-> UnknownLocation]
             ELSE LET found == scan_nearest(lat, lng, sensitive_locs.rows, 1, <<inf, None>>)
                      min_dist == found[1]
                      nearest == found[2]
                      risk == IF min_dist < F(2) THEN "High"
                              ELSE IF min_dist < F(10) THEN "Moderate"
                              ELSE "Low"
                  IN  IF nearest = None
                      THEN [status |-> 500, exception |-> "TypeError"]
                      ELSE [status |-> 200,
                            body |-> [nearest_location |-> nearest.name,
                                      type |-> nearest.category,
                                      distance_km |-> round(min_dist, 2, 3),
                                      risk |-> risk]]

-----------------------------------------------------------------------------
(* blueprint_utils.py and the /analyze-blueprint endpoint *)

\* str.endswith
endswith(s, suffix) ==
    Len(s) >= Len(suffix) /\ SubSeq(s, Len(s) - Len(suffix) + 1, Len(s)) = suffix

CountedTypes == {"LINE", "CIRCLE", "ARC", "LWPOLYLINE", "TEXT", "MTEXT"}

SetMin(S) == CHOOSE x \in S : \A y \in S : x <= y
SetMax(S) == CHOOSE x \in S : \A y \in S : x >= y

\* analyze_blueprint on the content of the temporary file; coordinates are
\* whole metres
analyze_blueprint(content) ==
    IF content.state = "not_dxf"
    THEN [success |-> FALSE, message |-> "Not a valid DXF file or file not found."]
    ELSE IF content.state = "corrupt"
    THEN [success |-> FALSE, message |-> "Invalid or Corrupt DXF file."]
    ELSE LET msp == content.entities
             counts == [t \in CountedTypes |->
                           Cardinality({i \in 1..Len(msp) : msp[i].dxftype = t})]
             entity_count == Len(msp)
             lines == {i \in 1..Len(msp) : msp[i].dxftype = "LINE"}
             xs == UNION {{msp[i].start[1], msp[i].end[1]} : i \in lines}
             ys == UNION {{msp[i].start[2], msp[i].end[2]} : i \in lines}
             width == IF lines # {} THEN SetMax(xs) - SetMin(xs) ELSE 0
             height == IF lines # {} THEN SetMax(ys) - SetMin(ys) ELSE 0
             area == width * height
             c1 == IF area > 0 /\ entity_count * 10 > area THEN 3
                   ELSE IF area > 0 /\ entity_count * 100 > area THEN 2
                   ELSE 1
             complexity_score == IF entity_count > 1000 THEN c1 + 1 ELSE c1
         IN  [success |-> TRUE,
              entity_counts |-> counts,
              total_entities |-> entity_count,
              estimated_width_m |-> round(F(width), 2, 3),
              estimated_height_m |-> round(F(height), 2, 3),
              estimated_area_m2 |-> round(F(area), 2, 3),
              complexity_score |-> Min(10, complexity_score * 2),
              message |-> "DXF Analysis Successful"]

\* upload_blueprint: the BlueprintResult for an uploaded file
upload_blueprint(file) ==
    IF endswith(lower(file.filename), <<".", "d", "w", "g">>)
    THEN [success |-> FALSE, data |-> None,
          message |-> "DWG files are binary and not supported. Please convert to .DXF using a CAD tool (or online converter) and upload."]
    ELSE IF ~(endswith(file.filename, <<".", "d", "x", "f">>)
              \/ endswith(file.filename, <<".", "D", "X", "F">>))
    THEN [success |-> FALSE, data |-> None,
          message |-> "Only .DXF files are supported for Blueprint Analysis in this version."]
    ELSE LET result == analyze_blueprint(file.content)
         IN  [success |-> result.success, data |-> result, message |-> result.message]

\* the uploads considered
NotDxf == [state |-> "not_dxf"]
Corrupt == [state |-> "corrupt"]
Drawing(entities) == [state |-> "ok", entities |-> entities]
Line(x1, y1, x2, y2) == [dxftype |-> "LINE", start |-> <<x1, y1>>, end |-> <<x2, y2>>]
Circle == [dxftype |-> "CIRCLE"]
Hatch == [dxftype |-> "HATCH"]

Uploads ==
    {[filename |-> <<"a", ".", "d", "w", "g">>, content |-> NotDxf],
     [filename |-> <<"a", ".", "D", "W", "G">>, content |-> NotDxf],
     [filename |-> <<"a", ".", "p", "d", "f">>, content |-> NotDxf],
     [filename |-> <<"a", ".", "d", "x", "f">>, content |-> NotDxf],
     [filename |-> <<"a", ".", "D", "x", "f">>, content |-> Drawing(<<>>)],
     [filename |-> <<"a", ".", "d", "x", "f">>, content |-> Corrupt],
     [filename |-> <<"a", ".", "d", "x", "f">>, content |-> Drawing(<<>>)],
     [filename |-> <<"a", ".", "D", "X", "F">>, content |-> Drawing(<<Circle, Hatch>>)],
     [filename |-> <<"a", ".", "d", "x", "f">>,
      content |-> Drawing(<<Line(0, 0, 4, 0), Line(4, 0, 4, 3), Circle>>)],
     [filename |-> <<"a", ".", "d", "x", "f">>,
      content |-> Drawing(<<Line(0, 0, 40, 0), Line(40, 0, 40, 30)>>)]}

-----------------------------------------------------------------------------
(* models.py: UserInput *)

RequiredFields ==
    {"city", "land_area_m2", "built_up_area_m2", "floors", "daily_water_m3",
     "daily_waste_kg", "hazardous_waste_kg_per_month", "vehicles_per_day",
     "fuel_consumption_l_per_day", "dg_hours_per_day", "distance_to_residential_m",
     "distance_to_water_body_km"}

FieldDefaults ==
    [project_type |-> "Residential", vegetation_removed_percent |-> 0,
     green_area_percent |-> 0, has_rainwater_harvesting |-> 0, has_solar |-> 0,
     energy_efficient_lighting |-> 0, waste_segregation |-> 0, stp_present |-> 0]

\* the validation FastAPI runs before a handler: the declared fields are typed,
\* none carries a range constraint, so a body passes iff the required fields
\* are present
UserInputValid(body) == RequiredFields \subseteq DOMAIN body

\* the UserInput built from a valid body: absent optional fields take their defaults
UserInput(body) ==
    [f \in RequiredFields \cup DOMAIN FieldDefaults |->
        IF f \in DOMAIN body THEN body[f] ELSE FieldDefaults[f]]

-----------------------------------------------------------------------------
(* The request bodies considered *)

PuneName == <<"P", "u", "n", "e">>
DelhiName == <<"D", "e", "l", "h", "i">>
GoaName == <<"G", "o", "a">>

RECURSIVE Pad(_)
Pad(k) == IF k = 0 THEN <<>> ELSE <<" ">> \o Pad(k - 1)

\* every spelling of a name: as written, lower case, upper case, padded with
\* up to MaxPad blanks on either side
Spellings(name) ==
    {Pad(l) \o s \o Pad(r) : s \in {name, lower(name), upper(name)},
                             l \in 0..MaxPad, r \in 0..MaxPad}

CityNames == Spellings(PuneName) \cup Spellings(DelhiName) \cup Spellings(GoaName)

ProjectTypes == {"Residential", "Commercial", "Industrial", "Warehouse"}

Base ==
    [city |-> PuneName, project_type |-> "Residential",
     land_area_m2 |-> F(5000), built_up_area_m2 |-> F(1500), floors |-> 3,
     daily_water_m3 |-> F(10), daily_waste_kg |-> F(150),
     hazardous_waste_kg_per_month |-> F(1),
     vehicles_per_day |-> 200, fuel_consumption_l_per_day |-> F(50),
     dg_hours_per_day |-> 0,
     distance_to_residential_m |-> F(100), distance_to_water_body_km |-> F(1),
     vegetation_removed_percent |-> 0, green_area_percent |-> F(5),
     has_rainwater_harvesting |-> 0, has_solar |-> 0, energy_efficient_lighting |-> 0,
     waste_segregation |-> 0, stp_present |-> 0]

\* Base with the fields of a second record overriding
With(body, over) ==
    [f \in DOMAIN body |-> IF f \in DOMAIN over THEN over[f] ELSE body[f]]

\* Base without some fields
Without(body, fields) == [f \in DOMAIN body \ fields |-> body[f]]

ThreeCities == {PuneName, DelhiName, GoaName}

CityBodies == {With(Base, [city |-> c]) : c \in CityNames}

NoiseBodies ==
    {With(Base, [project_type |-> t, distance_to_residential_m |-> d]) :
        t \in ProjectTypes, d \in {F(30), F(50), F(100)}}

AirBodies ==
    {With(Base, [city |-> c, vehicles_per_day |-> v, fuel_consumption_l_per_day |-> f,
                 dg_hours_per_day |-> g]) :
        c \in ThreeCities, v \in {0, 200}, f \in {0, F(50), F(200)},
        g \in {0, F(6), F(24)}}

WaterBodies ==
    {With(Base, [built_up_area_m2 |-> b, daily_water_m3 |-> w,
                 distance_to_water_body_km |-> d, stp_present |-> s,
                 has_rainwater_harvesting |-> r]) :
        b \in {0, F(1500)}, w \in {F(15), F(20)}, d \in {300, 500},
        s \in {0, 1}, r \in {0, 1}}

WasteBodies ==
    {With(Base, [daily_waste_kg |-> w, hazardous_waste_kg_per_month |-> h,
                 waste_segregation |-> s]) :
        w \in {0, F(150), F(1000)}, h \in {0, F(1), F(50)}, s \in {0, 1}}

LandBodies ==
    {With(Base, [city |-> c, vegetation_removed_percent |-> v, green_area_percent |-> g]) :
        c \in ThreeCities, v \in {0, 12500, F(60), F(100)}, g \in {F(5), 9700, F(10)}}

RecommendationBodies ==
    {With(Base, [fuel_consumption_l_per_day |-> f, distance_to_water_body_km |-> d,
                 vegetation_removed_percent |-> v, has_solar |-> s,
                 energy_efficient_lighting |-> l]) :
        f \in {F(50), F(200)}, d \in {300, F(1)}, v \in {0, F(60)},
        s \in {0, 1}, l \in {0, 1}}

\* bodies whose weighted sum lies at and just above the two class thresholds
ThresholdBodies ==
    {With(Base, [city |-> GoaName, green_area_percent |-> F(10),
                 vegetation_removed_percent |-> v]) :
        v \in {17850, 17900, 18200}}
    \cup
    {With(Base, [city |-> DelhiName, fuel_consumption_l_per_day |-> F(200),
                 daily_water_m3 |-> F(20), distance_to_water_body_km |-> 300,
                 has_rainwater_harvesting |-> 1, green_area_percent |-> F(10),
                 vegetation_removed_percent |-> v]) :
        v \in {4750, 4800, 5100}}

\* bodies that break the non-negativity the record is documented to have
NegativeBodies ==
    {With(Base, [land_area_m2 |-> -F(1)]),
     With(Base, [daily_waste_kg |-> -F(1000)]),
     With(Base, [vegetation_removed_percent |-> -F(50), green_area_percent |-> F(20)]),
     With(Base, [vehicles_per_day |-> -200, dg_hours_per_day |-> -F(10)])}

\* a body that leaves every optional field out
DefaultedBodies == {Without(Base, DOMAIN FieldDefaults)}

\* bodies that lack a required field
IncompleteBodies == {Without(Base, {"city"}), Without(Base, {"floors", "has_solar"})}

Bodies ==
    CityBodies \cup NoiseBodies \cup AirBodies \cup WaterBodies \cup WasteBodies
    \cup LandBodies \cup RecommendationBodies \cup ThresholdBodies
    \cup NegativeBodies \cup DefaultedBodies \cup IncompleteBodies

-----------------------------------------------------------------------------
(* The state machine *)

Unbound == [py |-> "unbound"]
NoRequest == [endpoint |-> "none"]
NoResponse == [status |-> 0]

Init ==
    /\ env \in Environments
    /\ pc = "import"
    /\ ML_MODEL = Unbound
    /\ SENSITIVE_LOCS = Unbound
    /\ CITIES_DB = Unbound
    /\ request = NoRequest
    /\ response = NoResponse
    /\ classifier_call = <<>>

\* FastAPI answers 422 to a body that does not validate as UserInput
RejectBody ==
    /\ pc = "serving"
    /\ \E endpoint \in {"/calculate-impact", "/predict-impact-ml"}, body \in Bodies :
          /\ ~UserInputValid(body)
          /\ request' = [endpoint |-> endpoint, body |-> body]
          /\ response' = [status |-> 422]
    /\ pc' = "responded"
    /\ UNCHANGED <<env, ML_MODEL, SENSITIVE_LOCS, CITIES_DB, classifier_call>>

CalculateImpact ==
    /\ pc = "serving"
    /\ \E body \in Bodies :
          /\ UserInputValid(body)
          /\ request' = [endpoint |-> "/calculate-impact", body |-> body]
          /\ response' = [status |-> 200,
                          body |-> calculate_impact(UserInput(body), CITIES_DB, SENSITIVE_LOCS)]
    /\ pc' = "responded"
    /\ UNCHANGED <<env, ML_MODEL, SENSITIVE_LOCS, CITIES_DB, classifier_call>>

\* predict_impact_ml without a model: HTTPException 503
PredictImpactMLUnavailable ==
    /\ pc = "serving"
    /\ ML_MODEL = None
    /\ \E body \in Bodies :
          /\ UserInputValid(body)
          /\ request' = [endpoint |-> "/predict-impact-ml", body |-> body]
          /\ response' = [status |-> 503, detail |-> "ML Model not loaded"]
    /\ pc' = "responded"
    /\ UNCHANGED <<env, ML_MODEL, SENSITIVE_LOCS, CITIES_DB, classifier_call>>

\* predict_impact_ml with a model
PredictImpactML ==
    /\ pc = "serving"
    /\ ML_MODEL # None
    /\ \E body \in Bodies, answer \in ClassifierAnswers :
          /\ UserInputValid(body)
          /\ request' = [endpoint |-> "/predict-impact-ml", body |-> body]
          /\ classifier_call' =
                 features_of(enrich_data(UserInput(body), CITIES_DB, SENSITIVE_LOCS))
          /\ response' = [status |-> 200, body |-> ml_prediction(answer)]
    /\ pc' = "responded"
    /\ UNCHANGED <<env, ML_MODEL, SENSITIVE_LOCS, CITIES_DB>>

\* AnalyzeLocation with a bug: the filtered frame is assigned back to the
\* global, so the city table keeps only the rows of the city asked for
AnalyzeLocation_filtering ==
    /\ pc = "serving"
    /\ \E city \in CityNames :
          /\ request' = [endpoint |-> "/analyze-location", city |-> city]
          /\ response' = analyze_location_proximity(city, CITIES_DB, SENSITIVE_LOCS)
          /\ CITIES_DB' =
                 (IF CITIES_DB = None THEN None
                  ELSE DataFrame(SelectSeq(CITIES_DB.rows,
                                           LAMBDA r : r.city_lower = lower(city))))
    /\ pc' = "responded"
    /\ UNCHANGED <<env, ML_MODEL, SENSITIVE_LOCS, classifier_call>>

AnalyzeLocation ==
    /\ pc = "serving"
    /\ \E city \in CityNames :
          /\ request' = [endpoint |-> "/analyze-location", city |-> city]
          /\ response' = analyze_location_proximity(city, CITIES_DB, SENSITIVE_LOCS)
    /\ pc' = "responded"
    /\ UNCHANGED <<env, ML_MODEL, SENSITIVE_LOCS, CITIES_DB, classifier_call>>

\* upload_blueprint: reads the upload, writes and removes a temporary file,
\* touches none of the globals
UploadBlueprint ==
    /\ pc = "serving"
    /\ \E file \in Uploads :
          /\ request' = [endpoint |-> "/analyze-blueprint", file |-> file]
          /\ response' = [status |-> 200, body |-> upload_blueprint(file)]
    /\ pc' = "responded"
    /\ UNCHANGED <<env, ML_MODEL, SENSITIVE_LOCS, CITIES_DB, classifier_call>>

\* the response is sent and the per-request records are discarded
Respond ==
    /\ pc = "responded"
    /\ pc' = "serving"
    /\ request' = NoRequest
    /\ response' = NoResponse
    /\ classifier_call' = <<>>
    /\ UNCHANGED <<env, ML_MODEL, SENSITIVE_LOCS, CITIES_DB>>

Next ==
    \/ LoadResources
    \/ RejectBody
    \/ CalculateImpact
    \/ PredictImpactMLUnavailable
    \/ PredictImpactML
    \/ AnalyzeLocation
    \/ UploadBlueprint
    \/ Respond

Spec == Init /\ [][Next]_vars

-----------------------------------------------------------------------------
(* Sanity of the fixed-point arithmetic *)

\* every division calculate_impact performs on this record is exact
divisions_exact(data) ==
    /\ (data.vehicles_per_day * (U \div 2) + data.fuel_consumption_l_per_day * 2) % 1000 = 0
    /\ (data.vehicles_per_day * (U \div 5) + data.fuel_consumption_l_per_day * 20) % 1000 = 0
    /\ (final_pm25_of(data) * 50) % 250 = 0
    /\ (final_no2_of(data) * 30) % 100 = 0
    /\ data.built_up_area_m2 % 15 = 0
    /\ (((data.daily_water_m3 * 1000) % persons_of(data)) * U) % persons_of(data) = 0
    /\ (data.daily_waste_kg * 10) % 100 = 0

\* the handlers never divide inexactly on the bodies considered
ArithmeticExact ==
    (pc = "responded" /\ response.status \in {200, 503}
     /\ request.endpoint \in {"/calculate-impact", "/predict-impact-ml"})
    => divisions_exact(enrich_data(UserInput(request.body), CITIES_DB, SENSITIVE_LOCS))

-----------------------------------------------------------------------------
(* Properties *)

NumericFields ==
    {"land_area_m2", "built_up_area_m2", "floors", "daily_water_m3", "daily_waste_kg",
     "hazardous_waste_kg_per_month", "vehicles_per_day", "fuel_consumption_l_per_day",
     "dg_hours_per_day", "distance_to_residential_m", "distance_to_water_body_km",
     "vegetation_removed_percent", "green_area_percent", "has_rainwater_harvesting",
     "has_solar", "energy_efficient_lighting", "waste_segregation", "stp_present"}

\* every numeric field the body carries is non-negative
NonNegative(body) == \A f \in NumericFields \cap DOMAIN body : body[f] >= 0

\* a handler of the impact pipeline has answered a request body
Answered(endpoint) == pc = "responded" /\ request.endpoint = endpoint

\* calculate_impact has returned an ImpactResult
ImpactReturned == Answered("/calculate-impact") /\ response.status = 200

\* predict_impact_ml has returned an MLPrediction
PredictionReturned == Answered("/predict-impact-ml") /\ response.status = 200

\* the enriched record of the request in hand
Enriched == enrich_data(UserInput(request.body), CITIES_DB, SENSITIVE_LOCS)

InRange(x) == 0 <= x /\ x <= F(100)

\* C1: for a body whose numeric fields are all non-negative, whatever the state
\* of the reference tables, the five sub-scores and the overall score that
\* calculate_impact returns lie in [0, 100].
C1_ScoresInRange ==
    (ImpactReturned /\ NonNegative(request.body))
    => /\ \A k \in DOMAIN response.body.breakdown : InRange(response.body.breakdown[k])
       /\ DOMAIN response.body.breakdown =
              {"Air Impact", "Water Impact", "Land Impact", "Waste Impact", "Noise Impact"}
       /\ InRange(response.body.overall_score)

\* C1 witness: a non-negative body whose air and waste scores are held at 100
C1_Witness ==
    /\ ImpactReturned
    /\ NonNegative(request.body)
    /\ request.body.daily_waste_kg = F(1000)
    /\ response.body.breakdown["Waste Impact"] = F(100)

\* the class the claim of C2 reads off a returned (rounded) overall score
ClassOfReturned(score) ==
    IF score > F(60) THEN "High" ELSE IF score > F(30) THEN "Moderate" ELSE "Low"

\* C2 as claimed: the class is determined by the returned overall score, so a
\* returned 30.0 is Low and a returned 60.0 is Moderate.
C2_ClassFromReturnedScore ==
    ImpactReturned => response.body.impact_class = ClassOfReturned(response.body.overall_score)

\* C2 amended: the class is determined by the weighted sum before rounding
\* (High iff sum > 60, Moderate iff 30 < sum <= 60, Low iff sum <= 30) and the
\* returned overall score is that sum rounded to one decimal; so a returned
\* score above 60.0 is High, below 30.0 is Low, strictly between is Moderate,
\* exactly 30.0 is Low or Moderate and exactly 60.0 is Moderate or High.
C2_ClassFromUnroundedSum ==
    ImpactReturned =>
        LET sum == overall_score_of(Enriched)
            r   == response.body
        IN  /\ (r.impact_class = "High") = (sum > 60 * U * U)
            /\ (r.impact_class = "Moderate") = (30 * U * U < sum /\ sum <= 60 * U * U)
            /\ (r.impact_class = "Low") = (sum <= 30 * U * U)
            /\ r.overall_score * U - sum <= 50 * U
            /\ sum - r.overall_score * U <= 50 * U
            /\ r.overall_score % 100 = 0
            /\ r.overall_score > F(60) => r.impact_class = "High"
            /\ r.overall_score < F(30) => r.impact_class = "Low"
            /\ (F(30) < r.overall_score /\ r.overall_score < F(60))
                   => r.impact_class = "Moderate"
            /\ r.overall_score = F(30) => r.impact_class \in {"Low", "Moderate"}
            /\ r.overall_score = F(60) => r.impact_class \in {"Moderate", "High"}

\* C2 witness: a result that shows 30.0 and is Moderate
C2_Witness ==
    /\ ImpactReturned
    /\ response.body.overall_score = F(30)
    /\ response.body.impact_class = "Moderate"

\* C3 as claimed: a body with a negative numeric field is rejected before
\* enrichment; neither handler returns a result for it.
C3_NegativeInputRejected ==
    ((Answered("/calculate-impact") \/ Answered("/predict-impact-ml"))
     /\ ~NonNegative(request.body))
    => /\ response.status = 422
       /\ classifier_call = <<>>

\* the reference data failed to load at import
LoadFailed == pc # "import" /\ (CITIES_DB = None \/ SENSITIVE_LOCS = None)

EmptyTable == DataFrame(<<>>)

\* C4: after a failed load every request completes without an unhandled
\* exception and every lookup behaves as NotFound: calculate_impact returns
\* the ImpactResult of the fallback defaults (the one empty tables give),
\* analyze_location_proximity returns its "Unknown" result, and
\* predict_impact_ml never gets as far as a lookup fault.
C4_DegradedButAvailable ==
    (LoadFailed /\ pc = "responded")
    => /\ response.status # 500
       /\ Answered("/calculate-impact") /\ UserInputValid(request.body)
            => /\ response.status = 200
               /\ response.body =
                      calculate_impact(UserInput(request.body), EmptyTable, EmptyTable)
               /\ Enriched.baseline_pm25 = F(100)
               /\ Enriched.baseline_no2 = F(40)
               /\ Enriched.near_sensitive_zone = 0
       /\ Answered("/analyze-location")
            => response = [status |-> 200, body |-> UnknownLocation]
       /\ Answered("/predict-impact-ml") => response.status \in {422, 503}

\* C4 witness: the tables are on disk with Pune in them, the load failed all
\* the same, and calculate_impact answered for Pune from the fallback baseline
C4_Witness ==
    /\ LoadFailed
    /\ ImpactReturned
    /\ env.cities_file = CsvFile(<<Pune, Delhi>>)
    /\ request.body.city = PuneName
    /\ response.body.final_pollution["PM2.5"] = F(110)

\* the spellings considered that differ from a name only in case and in
\* leading or trailing whitespace
Variants(name) == {n \in CityNames : strip(lower(n)) = strip(lower(name))}

\* C5 as claimed: at both lookup sites a name and each of its variants resolve
\* alike.
C5_LookupNormalised ==
    /\ (Answered("/analyze-location"))
         => \A n \in Variants(request.city) :
                location_city_data(n, CITIES_DB) = location_city_data(request.city, CITIES_DB)
    /\ ((Answered("/calculate-impact") \/ Answered("/predict-impact-ml"))
        /\ UserInputValid(request.body))
         => \A n \in Variants(request.body.city) :
                city_data_of(n, CITIES_DB) = city_data_of(request.body.city, CITIES_DB)

\* the globals a load would have bound had the classifier file been in the
\* other state, everything else on disk being the same
OtherClassifier ==
    LoadedResources([env EXCEPT !.model_file = IF @ = "ok" THEN "missing" ELSE "ok"])

\* C6 as claimed: without a classifier predict_impact_ml answers "model
\* unavailable" and hands nothing to a classifier, and the result of
\* calculate_impact is the same whether or not the classifier is available.
C6_ClassifierIndependent ==
    /\ (Answered("/predict-impact-ml") /\ ML_MODEL = None /\ UserInputValid(request.body))
         => /\ response = [status |-> 503, detail |-> "ML Model not loaded"]
            /\ classifier_call = <<>>
    /\ ImpactReturned
         => response.body = calculate_impact(UserInput(request.body),
                                             OtherClassifier.CITIES_DB,
                                             OtherClassifier.SENSITIVE_LOCS)

\* the first row of the city table whose name, lower-cased, is the trimmed,
\* lower-cased name asked for; None when there is no table or no such row
RecordFor(city) ==
    LET key  == strip(lower(city))
        hits == IF CITIES_DB = None THEN {}
                ELSE {i \in 1..Len(CITIES_DB.rows) : lower(CITIES_DB.rows[i].row.city) = key}
    IN  IF hits = {} THEN None
        ELSE CITIES_DB.rows[CHOOSE i \in hits : \A j \in hits : i <= j].row

\* C7: for a city no record matches, enrichment resolves exactly the fallback
\* coordinates (20.5937, 78.9629) and the fallback baselines PM2.5 = 100,
\* NO2 = 40, SO2 = 15, CO = 1.5, O3 = 30, and the request is answered normally;
\* for a known city it takes coordinates and all five baselines from the record.
C7_FallbackOrRecord ==
    ((Answered("/calculate-impact") \/ Answered("/predict-impact-ml"))
     /\ UserInputValid(request.body) /\ response.status # 503)
    => LET rec  == RecordFor(request.body.city)
           data == Enriched
           cd   == city_data_of(request.body.city, CITIES_DB)
       IN  /\ response.status = 200
           /\ rec = None
                => /\ resolved_lat(cd) = 205937 /\ resolved_lng(cd) = 789629
                   /\ data.baseline_pm25 = 100000 /\ data.baseline_no2 = 40000
                   /\ data.baseline_so2 = 15000 /\ data.baseline_co = 1500
                   /\ data.baseline_o3 = 30000
           /\ rec # None
                => /\ resolved_lat(cd) = rec.latitude /\ resolved_lng(cd) = rec.longitude
                   /\ data.baseline_pm25 = rec.pm25 /\ data.baseline_no2 = rec.no2
                   /\ data.baseline_so2 = rec.so2 /\ data.baseline_co = rec.co_mg_m3
                   /\ data.baseline_o3 = rec.o3
           /\ PredictionReturned
                => /\ classifier_call[1][15] = (IF rec = None THEN 15000 ELSE rec.so2)
                   /\ classifier_call[1][16] = (IF rec = None THEN 1500 ELSE rec.co_mg_m3)
           /\ ImpactReturned
                => response.body.final_pollution["PM2.5"] =
                       round((IF rec = None THEN 100000 ELSE rec.pm25)
                             + added_pm25_of(data) * 50, 2, 3)

\* C7 witness: a loaded city table that has Pune, and a prediction made for Goa
C7_Witness ==
    /\ PredictionReturned
    /\ CITIES_DB # None
    /\ RecordFor(PuneName) # None
    /\ strip(lower(request.body.city)) = lower(GoaName)
    /\ classifier_call[1][16] = 1500

FixedOrder == <<AirRec, WaterRec, LandRec, SolarRec, LedRec>>

\* the triggers of the five rules, in the fixed order
Triggers(data) ==
    <<air_score_of(data) > F(50), water_score_of(data) > F(50), land_score_of(data) > F(50),
      data.has_solar = 0, data.energy_efficient_lighting = 0>>

\* recs is the subsequence of FixedOrder picked out by the triggers
IsTriggeredSubsequence(recs, trig) ==
    /\ Len(recs) = Cardinality({i \in 1..5 : trig[i]})
    /\ \A i \in 1..5 : trig[i] <=> \E k \in 1..Len(recs) : recs[k] = FixedOrder[i]
    /\ \A k, l \in 1..Len(recs) :
           k < l => \E i, j \in 1..5 : i < j /\ recs[k] = FixedOrder[i] /\ recs[l] = FixedOrder[j]

\* C8: the recommendations calculate_impact returns are exactly the rules of
\* the fixed order [air, water, land, solar, LED] whose triggers hold, in that
\* order, nothing added, dropped or reordered.
C8_RecommendationOrder ==
    ImpactReturned =>
        IsTriggeredSubsequence(response.body.recommendations, Triggers(Enriched))

\* C8 witness: air above 50, water and land not, no solar, no LED lighting:
\* the list is [air, solar, LED]
C8_Witness ==
    /\ ImpactReturned
    /\ Triggers(Enriched) = <<TRUE, FALSE, FALSE, TRUE, TRUE>>
    /\ response.body.recommendations = <<AirRec, SolarRec, LedRec>>

\* the flags are 0 or 1
FlagsBoolean(body) ==
    \A f \in {"has_rainwater_harvesting", "has_solar", "energy_efficient_lighting",
              "waste_segregation", "stp_present"} \cap DOMAIN body : body[f] \in {0, 1}

\* lpcd > 150 without dividing: with persons = max(1, built_up/15) and
\* lpcd = water*1000/persons, lpcd > 150 iff water*1000 > 150*persons
LpcdAbove150(ui) ==
    IF ui.built_up_area_m2 >= F(15)
    THEN ui.daily_water_m3 * 100 > ui.built_up_area_m2
    ELSE ui.daily_water_m3 * 1000 > F(150)

\* the water sum of the specification, before the clamp
WaterSum(ui) ==
    (IF LpcdAbove150(ui) THEN 40 ELSE 0)
    + (IF ui.distance_to_water_body_km * 2 < U THEN 40 ELSE 0)
    + (IF ui.stp_present = 0 THEN 20 ELSE 0)
    - (IF ui.has_rainwater_harvesting = 1 THEN 10 ELSE 0)

\* C9: for a valid body the water score returned is the clamp to [0, 100] of
\* 40 if lpcd > 150, plus 40 if the water body is nearer than 0.5 km, plus 20
\* without sewage treatment, minus 10 with rainwater harvesting; the persons
\* estimate is at least 1, so lpcd never divides by zero.
C9_WaterScore ==
    (ImpactReturned /\ NonNegative(request.body) /\ FlagsBoolean(request.body))
    => LET ui == UserInput(request.body)
       IN  /\ persons_of(Enriched) >= F(1)
           /\ response.body.breakdown["Water Impact"]
                  = F(Max(0, Min(100, WaterSum(ui))))

\* C9 witness: built-up 1500, water 20, water body at 0.3 km, no sewage
\* treatment, no rainwater harvesting: the water score is 100
C9_Witness ==
    /\ ImpactReturned
    /\ request.body.built_up_area_m2 = F(1500)
    /\ request.body.daily_water_m3 = F(20)
    /\ request.body.distance_to_water_body_km = 300
    /\ request.body.stp_present = 0
    /\ request.body.has_rainwater_harvesting = 0
    /\ response.body.breakdown["Water Impact"] = F(100)

\* the value the enriched record and the dispersion model give a training feature
FeatureValue(name, data) ==
    IF name \in DOMAIN data THEN data[name]
    ELSE IF name = "final_pm25" THEN data.baseline_pm25 + added_pm25_of(data) * 50
    ELSE IF name = "final_no2" THEN data.baseline_no2 + added_no2_of(data) * 50
    ELSE IF name = "final_so2" THEN data.baseline_so2
    ELSE data.baseline_co

\* C10: the classifier is handed one vector of exactly 16 elements, element i
\* being the value of the i-th feature of the training list; final_so2 and
\* final_co are the baselines unmodified, final_pm25 and final_no2 are
\* baseline + added * 50.
C10_FeatureVector ==
    PredictionReturned =>
        /\ Len(classifier_call) = 1
        /\ Len(classifier_call[1]) = 16
        /\ Len(train_features) = 16
        /\ LET data == Enriched
           IN  \A i \in 1..16 :
                   classifier_call[1][i] = FeatureValue(train_features[i], data)

\* C10 witness: a prediction for a city of the table with traffic and fuel,
\* so that the last four features are pairwise different
C10_Witness ==
    /\ PredictionReturned
    /\ RecordFor(request.body.city) # None
    /\ request.body.vehicles_per_day = 200
    /\ classifier_call[1][13] > Enriched.baseline_pm25
    /\ classifier_call[1][14] > Enriched.baseline_no2
    /\ classifier_call[1][15] # classifier_call[1][16]

\* the zone list enrichment has at hand: the rows of the loaded table, nothing
\* when the table is unavailable
ZoneList == IF SENSITIVE_LOCS = None THEN <<>> ELSE SENSITIVE_LOCS.rows

\* the distance to a zone from the coordinates of a city record, or from the
\* fallback 20.5937, 78.9629 when there is no record
DistanceTo(zone, rec) ==
    IF rec # None THEN haversine(rec.longitude, rec.latitude, zone.lng, zone.lat)
    ELSE haversine(789629, 205937, zone.lng, zone.lat)

\* the distance from the coordinates resolved for a city name to a zone
DistanceFrom(city, zone) == DistanceTo(zone, RecordFor(city))

\* C14: near_sensitive_zone is 1 iff some record of the whole zone list lies
\* strictly nearer than 5.0 km to the resolved coordinates (the city's, or the
\* fallback ones for an unknown city), wherever in the list it stands; a zone
\* at exactly 5.0 km does not count, and the flag is 0 for an empty or
\* unavailable list.  The classifier is handed the same flag.
C14_NearSensitiveZone ==
    ((Answered("/calculate-impact") \/ Answered("/predict-impact-ml"))
     /\ UserInputValid(request.body))
    => LET rec == RecordFor(request.body.city)
           near == \E i \in 1..Len(ZoneList) : DistanceTo(ZoneList[i], rec) < 5000
           data == Enriched
       IN  /\ data.near_sensitive_zone = (IF near THEN 1 ELSE 0)
           /\ ZoneList = <<>> => data.near_sensitive_zone = 0
           /\ PredictionReturned => classifier_call[1][10] = (IF near THEN 1 ELSE 0)

\* C14 witness: an impact computed for Pune with a zone at exactly 5.0 km
\* listed first and a farther one after it; the flag is 0
C14_Witness ==
    /\ ImpactReturned
    /\ RecordFor(request.body.city) = Pune
    /\ Len(ZoneList) = 2
    /\ DistanceFrom(request.body.city, ZoneList[1]) = 5000
    /\ DistanceFrom(request.body.city, ZoneList[2]) > 5000
    /\ Enriched.near_sensitive_zone = 0

\* a zone nearer than 5.0 km found behind one that is not
C14_WitnessSecond ==
    /\ PredictionReturned
    /\ Len(ZoneList) = 2
    /\ DistanceFrom(request.body.city, ZoneList[1]) >= 5000
    /\ DistanceFrom(request.body.city, ZoneList[2]) < 5000
    /\ classifier_call[1][10] = 1

\* C12 as claimed: /analyze-location for a city of the table, with the zone
\* table loaded but without rows, returns a result (NotFound) and does not
\* fault for want of a retained zone.
C12_EmptyZonesNotFound ==
    (/\ Answered("/analyze-location")
     /\ location_city_data(request.city, CITIES_DB) # None
     /\ SENSITIVE_LOCS = EmptyTable)
    => response.status = 200

\* the value of a field of the enriched record in the units of the raw input:
\* green_area_percent is an int there, a float (fixed point) in UserInput
AsRaw(f, data) == IF f = "green_area_percent" THEN F(data[f]) ELSE data[f]

\* C13 as claimed: every numeric field and every flag of the enriched record
\* has exactly the value of the raw input, green_area_percent and
\* vegetation_removed_percent included when they are not whole numbers.
C13_PassThrough ==
    ((Answered("/calculate-impact") \/ Answered("/predict-impact-ml"))
     /\ UserInputValid(request.body))
    => \A f \in NumericFields : AsRaw(f, Enriched) = UserInput(request.body)[f]

\* every file the load reads is there and readable
AllFilesOk ==
    env.model_file = "ok" /\ env.locs_file.state = "ok" /\ env.cities_file.state = "ok"

\* C15: the three globals are bound in one guarded step.  After startup a
\* failure with any one file leaves all three None, and the classifier is
\* None iff the city table is None iff the zone table is None; so with the
\* classifier alone missing calculate_impact works from the fallback
\* baselines, and predict_impact_ml never returns a prediction without both
\* tables.
C15_AllOrNothing ==
    pc # "import"
    => /\ ~AllFilesOk => (ML_MODEL = None /\ SENSITIVE_LOCS = None /\ CITIES_DB = None)
       /\ AllFilesOk => (ML_MODEL # None /\ SENSITIVE_LOCS # None /\ CITIES_DB # None)
       /\ (ML_MODEL = None) <=> (CITIES_DB = None)
       /\ (CITIES_DB = None) <=> (SENSITIVE_LOCS = None)
       /\ (ImpactReturned /\ env.model_file # "ok")
            => LET data == Enriched
               IN  /\ data.baseline_pm25 = 100000 /\ data.baseline_no2 = 40000
                   /\ data.baseline_so2 = 15000 /\ data.baseline_co = 1500
                   /\ data.baseline_o3 = 30000
                   /\ data.near_sensitive_zone = 0
       /\ PredictionReturned => (CITIES_DB # None /\ SENSITIVE_LOCS # None)

\* C15 witness: only the classifier file is missing, both tables are on disk
\* with rows, all three globals are None and a prediction was refused
C15_Witness ==
    /\ env.model_file = "missing"
    /\ env.locs_file.state = "ok" /\ env.locs_file.rows # <<>>
    /\ env.cities_file.state = "ok" /\ env.cities_file.rows # <<>>
    /\ ML_MODEL = None /\ SENSITIVE_LOCS = None /\ CITIES_DB = None
    /\ Answered("/predict-impact-ml")
    /\ response.status = 503

\* the reference store and the other process-wide state: the three globals
\* and the files they were read from
store == <<ML_MODEL, SENSITIVE_LOCS, CITIES_DB, env>>

\* the ImpactResult a body gets from the store bound at startup
ImpactAtStartup(body) ==
    calculate_impact(UserInput(body), LoadedResources(env).CITIES_DB,
                     LoadedResources(env).SENSITIVE_LOCS)

\* C11: calculate_impact is deterministic and leaves no trace.  Whatever
\* requests (calculate_impact, predict_impact_ml, analyze_location_proximity,
\* upload_blueprint, rejected bodies) were served before, the ImpactResult
\* returned for a body is the one that body gets from the store as it was bound
\* at startup, so two calls with the same body return the same result; and no
\* step after startup changes the store.
C11_DeterministicNoTrace ==
    /\ [](ImpactReturned => response.body = ImpactAtStartup(request.body))
    /\ [][pc # "import" => store' = store]_vars

\* C11 witness: an ImpactResult for Pune that comes from the tables (not the
\* one the fallbacks give) and is the one of the store bound at startup
C11_Witness ==
    /\ ImpactReturned
    /\ RecordFor(request.body.city) = Pune
    /\ Enriched.near_sensitive_zone = 1
    /\ response.body = ImpactAtStartup(request.body)
    /\ response.body # calculate_impact(UserInput(request.body), None, None)

====
